---- MODULE Spec2Model ----
(***************************************************************************)
(* NOW/commands/command.py: the command lifecycle (class Command) and the  *)
(* roster command (class CmdWho), run by the host's command handler over   *)
(* the session registry SESSIONS.                                          *)
(*                                                                         *)
(* Text is a sequence of character codes, so that cropping, sorting by key *)
(* and the %-formatting of the summary line are computed on strings.       *)
(***************************************************************************)
EXTENDS Integers, Sequences, FiniteSets, TLC

VARIABLES sessions, perms, pc, cmd, raw, switches, preret, hooks, outbox, table, raised

vars == <<sessions, perms, pc, cmd, raw, switches, preret, hooks, outbox, table, raised>>

----------------------------------------------------------------------------
(* Bounds of the model *)

MaxSessions == 2

MaxNameLen == 27

(* utils.crop(..., width=25) *)
CropWidth == 25

----------------------------------------------------------------------------
(* Text literals of the source, as character codes *)

StrNone == <<78, 111, 110, 101>>

StrUnknown == <<45, 32, 85, 110, 107, 110, 111, 119, 110, 32, 45>>

StrOne == <<79, 110, 101>>

StrCommandCalled == <<67, 111, 109, 109, 97, 110, 100, 32, 99, 97, 108, 108, 101, 100, 33>>

CropSuffix == <<91, 46, 46, 46, 93>>

HeaderFull == <<"{wPlayer Name", "{wOn for", "{wIdle", "{wCharacter", "{wRoom", "{wCmds", "{wProtocol", "{wHost">>

HeaderModerate == <<"{wCharacter", "{wOn for", "{wIdle", "{wLocation">>

HeaderMinimal == <<"{wCharacter", "{wOn for", "{wIdle">>

----------------------------------------------------------------------------
(* The accounts, callers and sessions of the host *)

Callers == {"p1", "p2", "p3"}

CallerPerms == [p \in Callers |-> CASE p = "p1" -> {} [] p = "p2" -> {"Wizards"} [] OTHER -> {"Immortals"}]

(* Account keys: "Amy", "B" followed by o's up to the crop width, "Z" followed by z's beyond it *)
Amy == <<65, 109, 121>>

Bob == [i \in 1..CropWidth |-> IF i = 1 THEN 66 ELSE 111]

Zed == [i \in 1..MaxNameLen |-> IF i = 1 THEN 90 ELSE 122]

AccountKeys == {Amy, Bob, Zed}

(* puppet: "none" = the session controls no object, "noloc" = an object whose
   location is None, "loc" = an object in a room *)
PuppetStates == {"none", "noloc", "loc"}

Session == {s \in [player : AccountKeys, logged_in : BOOLEAN, puppet : PuppetStates] : ~s.logged_in => s.puppet = "none"}

RECURSIVE SeqsUpTo(_, _)
SeqsUpTo(S, n) == IF n = 0 THEN {<<>>} ELSE LET r == SeqsUpTo(S, n - 1) IN r \cup {Append(q, s) : q \in {x \in r : Len(x) = n - 1}, s \in S}

RawSwitches == {<<>>, <<"f">>, <<"x">>}

CommandKeys == {"MyCommand", "who"}

(* the key of the object a session puppets, and of the room it is in *)
PuppetKey(s) == <<67>> \o s.player

LocationKey(s) == <<82>> \o s.player

----------------------------------------------------------------------------
(* Collaborators of the host framework, as the code uses them *)

(* str < str of Python: by code point, a proper prefix first *)
StrLess(a, b) == \/ \E i \in 1..Len(a) : /\ i <= Len(b)
                                         /\ a[i] < b[i]
                                         /\ \A j \in 1..(i - 1) : a[j] = b[j]
                 \/ /\ Len(a) < Len(b)
                    /\ \A j \in 1..Len(a) : a[j] = b[j]

(* "%s" % n for a non-negative integer *)
RECURSIVE Digits(_)
Digits(n) == IF n < 10 THEN <<48 + n>> ELSE Digits(n \div 10) \o <<48 + (n % 10)>>

(* utils.crop(text, width): text that fits is returned as is, longer text
   is cut so that text plus the "[...]" suffix is width characters long *)
Crop(text, width) == IF Len(text) <= width THEN text
                     ELSE IF Len(CropSuffix) >= width THEN SubSeq(text, 1, width)
                     ELSE SubSeq(text, 1, width - Len(CropSuffix)) \o CropSuffix

(* player.check_permstring(perm) *)
CheckPermstring(ps, perm) == perm \in ps

(* SESSIONS.get_sessions(): the sessions, by their position in the registry *)
GetSessions(ss) == [i \in 1..Len(ss) |-> i]

(* SESSIONS.player_count(): the distinct accounts with a logged-in session *)
PlayerCount(ss) == Cardinality({ss[i].player : i \in {j \in 1..Len(ss) : ss[j].logged_in}})

(* a cell that renders a field of session i the model keeps no value of:
   utils.time_format(time.time() - session.<field>, style), session.cmd_total,
   session.protocol_key, the host of session.address *)
FieldCell(i, field, style) == [of |-> i, field |-> field, style |-> style]

----------------------------------------------------------------------------
(* CmdWho.func *)

InSwitches(x, sw) == \E i \in 1..Len(sw) : sw[i] = x

(* sorted(session_list, key=lambda o: o.player.key): stable insertion *)
InsertByKey(ss, sorted, i) ==
    LET later == {p \in 1..Len(sorted) : StrLess(ss[i].player, ss[sorted[p]].player)}
        at == IF later = {} THEN Len(sorted) + 1 ELSE CHOOSE p \in later : \A q \in later : p <= q
    IN SubSeq(sorted, 1, at - 1) \o <<i>> \o SubSeq(sorted, at, Len(sorted))

RECURSIVE SortFrom(_, _, _, _)
SortFrom(ss, list, k, acc) == IF k > Len(list) THEN acc ELSE SortFrom(ss, list, k + 1, InsertByKey(ss, acc, list[k]))

SortedUnsorted(ss, list) == list

Sorted(ss, list) == SortFrom(ss, list, 1, <<>>)

ShowSessionDataSwitchOnly(sw, ps) == InSwitches("f", sw)

ShowSessionData(sw, ps) == IF InSwitches("f", sw)
                           THEN CheckPermstring(ps, "Immortals") \/ CheckPermstring(ps, "Wizards")
                           ELSE FALSE

View(sw, ps) == IF InSwitches("f", sw)
                THEN (IF ShowSessionData(sw, ps) THEN "full" ELSE "moderate")
                ELSE "minimal"

Header(view) == CASE view = "full" -> HeaderFull
                  [] view = "moderate" -> HeaderModerate
                  [] OTHER -> HeaderMinimal

(* puppet.location.key raises AttributeError when puppet.location is None *)
RowRaises(view, s) == view # "minimal" /\ s.puppet = "noloc"

Row(view, ss, i) ==
    LET s == ss[i]
        location == IF s.puppet # "none" THEN LocationKey(s) ELSE StrNone
    IN CASE view = "full" ->
              <<Crop(s.player, CropWidth),
                FieldCell(i, "conn_time", 0),
                FieldCell(i, "cmd_last_visible", 1),
                Crop(IF s.puppet # "none" THEN PuppetKey(s) ELSE StrNone, CropWidth),
                Crop(location, CropWidth),
                FieldCell(i, "cmd_total", 0),
                FieldCell(i, "protocol_key", 0),
                FieldCell(i, "address", 0)>>
         [] view = "moderate" ->
              <<Crop(IF s.puppet # "none" THEN PuppetKey(s) ELSE StrUnknown, CropWidth),
                FieldCell(i, "conn_time", 0),
                FieldCell(i, "cmd_last_visible", 1),
                Crop(location, CropWidth)>>
         [] OTHER ->
              <<Crop(IF s.puppet # "none" THEN PuppetKey(s) ELSE StrUnknown, CropWidth),
                FieldCell(i, "conn_time", 0),
                FieldCell(i, "cmd_last_visible", 1)>>

(* the loop over session_list: rows added so far, the session of each row,
   and whether a row raised *)
RECURSIVE Rows(_, _, _, _, _)
Rows(view, ss, list, k, acc) ==
    IF k > Len(list) THEN acc
    ELSE IF ~ss[list[k]].logged_in THEN Rows(view, ss, list, k + 1, acc)
    ELSE IF RowRaises(view, ss[list[k]]) THEN [acc EXCEPT !.raised = TRUE]
    ELSE Rows(view, ss, list, k + 1,
              [acc EXCEPT !.rows = Append(@, Row(view, ss, list[k])), !.src = Append(@, list[k])])

NoTable == [header |-> <<>>, rows |-> <<>>, src |-> <<>>, raised |-> FALSE]

BuildTable(view, ss) == Rows(view, ss, Sorted(ss, GetSessions(ss)), 1, [NoTable EXCEPT !.header = Header(view)])

SummaryZeroAware(n) == IF n = 0 THEN <<78, 111>> \o <<32, 112, 108, 97, 121, 101, 114, 115>>
                       ELSE (IF n = 1 THEN StrOne ELSE Digits(n))
                            \o <<32, 117, 110, 105, 113, 117, 101, 32, 97, 99, 99, 111, 117, 110, 116>>
                            \o (IF n = 1 THEN <<>> ELSE <<115>>)
                            \o <<32, 108, 111, 103, 103, 101, 100, 32, 105, 110, 46>>

SummaryAlwaysPlural(n) == (IF n = 1 THEN StrOne ELSE Digits(n))
                          \o <<32, 117, 110, 105, 113, 117, 101, 32, 97, 99, 99, 111, 117, 110, 116>>
                          \o <<115>>
                          \o <<32, 108, 111, 103, 103, 101, 100, 32, 105, 110, 46>>

(* "%s unique account%s logged in." % ("One" if isone else nplayers, "" if isone else "s") *)
Summary(nplayers) ==
    LET isone == nplayers = 1
    IN (IF isone THEN StrOne ELSE Digits(nplayers))
       \o <<32, 117, 110, 105, 113, 117, 101, 32, 97, 99, 99, 111, 117, 110, 116>>
       \o (IF isone THEN <<>> ELSE <<115>>)
       \o <<32, 108, 111, 103, 103, 101, 100, 32, 105, 110, 46>>

Msg(c, t, text) == [to |-> c, table |-> t, text |-> text]

WhoFunc(c) ==
    LET t == BuildTable(View(switches[c], perms[c]), sessions)
        nplayers == PlayerCount(sessions)
    IN /\ table' = [header |-> t.header, rows |-> t.rows, src |-> t.src]
       /\ raised' = t.raised
       /\ outbox' = IF t.raised THEN outbox
                    ELSE Append(outbox, Msg(c, [header |-> t.header, rows |-> t.rows], Summary(nplayers)))

(* Command.func *)
CommandFunc(c) ==
    /\ outbox' = Append(outbox, Msg(c, [header |-> <<>>, rows |-> <<>>], StrCommandCalled))
    /\ UNCHANGED <<table, raised>>

----------------------------------------------------------------------------
(* The command lifecycle: at_pre_cmd, parse, func, at_post_cmd *)

LifecycleOrder == <<"at_pre_cmd", "parse", "func", "at_post_cmd">>

(* the values at_pre_cmd can return: Command.at_pre_cmd is `pass` and returns
   None; CmdWho inherits the hook of the host's MuxPlayerCommand, which may
   return either *)
AtPreCmdReturns(name) == IF name = "MyCommand" THEN {FALSE} ELSE BOOLEAN

(* "If this returns True, execution is aborted." *)
AfterPreIgnoringReturn(r) == "parse"

AfterPre(r) == IF r THEN "aborted" ELSE "parse"

(* at_post_cmd is called after func returns; an exception leaves func early *)
AfterFuncSkippingPost(exc) == IF exc THEN "error" ELSE "done"

AfterFunc(exc) == IF exc THEN "error" ELSE "post"

(* the host runs an invocation to completion before it starts another *)
CanDispatchAnyTime(c) == pc[c] = "idle"

CanDispatch(c) == \A d \in Callers : pc[d] = "idle"

(* the command handler identifies the command and instantiates it *)
Dispatch(c, name, sw) ==
    /\ CanDispatch(c)
    /\ pc' = [pc EXCEPT ![c] = "pre"]
    /\ cmd' = [cmd EXCEPT ![c] = name]
    /\ raw' = [raw EXCEPT ![c] = sw]
    /\ UNCHANGED <<sessions, perms, switches, preret, hooks, outbox, table, raised>>

PreCmd(c) ==
    /\ pc[c] = "pre"
    /\ \E r \in AtPreCmdReturns(cmd[c]) :
          /\ preret' = [preret EXCEPT ![c] = IF r THEN "true" ELSE "false"]
          /\ pc' = [pc EXCEPT ![c] = AfterPre(r)]
    /\ hooks' = [hooks EXCEPT ![c] = Append(@, "at_pre_cmd")]
    /\ UNCHANGED <<sessions, perms, cmd, raw, switches, outbox, table, raised>>

(* Command.parse is `pass`; the parser CmdWho inherits stores the switches *)
Parse(c) ==
    /\ pc[c] = "parse"
    /\ switches' = [switches EXCEPT ![c] = IF cmd[c] = "who" THEN raw[c] ELSE @]
    /\ hooks' = [hooks EXCEPT ![c] = Append(@, "parse")]
    /\ pc' = [pc EXCEPT ![c] = "func"]
    /\ UNCHANGED <<sessions, perms, cmd, raw, preret, outbox, table, raised>>

Func(c) ==
    /\ pc[c] = "func"
    /\ IF cmd[c] = "who" THEN WhoFunc(c) ELSE CommandFunc(c)
    /\ hooks' = [hooks EXCEPT ![c] = Append(@, "func")]
    /\ pc' = [pc EXCEPT ![c] = AfterFunc(raised')]
    /\ UNCHANGED <<sessions, perms, cmd, raw, switches, preret>>

(* Command.at_post_cmd is `pass` *)
PostCmd(c) ==
    /\ pc[c] = "post"
    /\ hooks' = [hooks EXCEPT ![c] = Append(@, "at_post_cmd")]
    /\ pc' = [pc EXCEPT ![c] = "done"]
    /\ UNCHANGED <<sessions, perms, cmd, raw, switches, preret, outbox, table, raised>>

EmptyTable == [header |-> <<>>, rows |-> <<>>, src |-> <<>>]

(* the invocation context is discarded when the invocation is over *)
Discard(c) ==
    /\ pc[c] \in {"done", "aborted", "error"}
    /\ pc' = [pc EXCEPT ![c] = "idle"]
    /\ cmd' = [cmd EXCEPT ![c] = "none"]
    /\ raw' = [raw EXCEPT ![c] = <<>>]
    /\ switches' = [switches EXCEPT ![c] = <<>>]
    /\ preret' = [preret EXCEPT ![c] = "none"]
    /\ hooks' = [hooks EXCEPT ![c] = <<>>]
    /\ outbox' = <<>>
    /\ table' = EmptyTable
    /\ raised' = FALSE
    /\ UNCHANGED <<sessions, perms>>

(* the roster of the specification's scenario: "Bob", "Amy", "Zed" logged in
   and one session that is not *)
ScenarioSessions ==
    LET in(k) == [player |-> k, logged_in |-> TRUE, puppet |-> "loc"]
        out(k) == [player |-> k, logged_in |-> FALSE, puppet |-> "none"]
    IN {<<in(Bob), out(Bob), in(Amy), in(Zed)>>, <<out(Zed), in(Bob), in(Amy), in(Zed)>>}

Init ==
    /\ sessions \in SeqsUpTo(Session, MaxSessions) \cup ScenarioSessions
    /\ perms = CallerPerms
    /\ pc = [c \in Callers |-> "idle"]
    /\ cmd = [c \in Callers |-> "none"]
    /\ raw = [c \in Callers |-> <<>>]
    /\ switches = [c \in Callers |-> <<>>]
    /\ preret = [c \in Callers |-> "none"]
    /\ hooks = [c \in Callers |-> <<>>]
    /\ outbox = <<>>
    /\ table = EmptyTable
    /\ raised = FALSE

Next ==
    \E c \in Callers :
        \/ \E name \in CommandKeys, sw \in RawSwitches : Dispatch(c, name, sw)
        \/ PreCmd(c)
        \/ Parse(c)
        \/ Func(c)
        \/ PostCmd(c)
        \/ Discard(c)

Spec == Init /\ [][Next]_vars

----------------------------------------------------------------------------
(* Properties *)

Range(f) == {f[i] : i \in DOMAIN f}

LoggedIn == {i \in 1..Len(sessions) : sessions[i].logged_in}

Elevated(c) == perms[c] \cap {"Immortals", "Wizards"} # {}

(* func of the who command has run in c's invocation *)
WhoRan(c) == cmd[c] = "who" /\ "func" \in Range(hooks[c])

(* the report of who is in the outbox *)
WhoSent(c) == WhoRan(c) /\ \E k \in 1..Len(outbox) : outbox[k].to = c

PrivilegedColumns == {"{wPlayer Name", "{wCmds", "{wProtocol", "{wHost"}

(* C1: in an invocation whose at_pre_cmd returned true, no hook but
   at_pre_cmd has run and nothing has been sent to the caller; the
   invocation stays aborted until it is discarded. *)
C1_PreHookAborts ==
    \A c \in Callers :
        preret[c] = "true" =>
            /\ pc[c] = "aborted"
            /\ hooks[c] = <<"at_pre_cmd">>
            /\ \A k \in 1..Len(outbox) : outbox[k].to # c

C1_Witness == \E c \in Callers : preret[c] = "true" /\ cmd[c] = "who" /\ pc[c] = "aborted"

(* C2: the hooks that have run in an invocation are a prefix of at_pre_cmd,
   parse, func, at_post_cmd (in order, each at most once); an invocation
   whose func returned is at at_post_cmd or past it, and is done only with
   all four hooks run; at most one caller's invocation is in progress. *)
C2_LifecycleOrder ==
    /\ \A c \in Callers :
          /\ Len(hooks[c]) <= Len(LifecycleOrder)
          /\ hooks[c] = SubSeq(LifecycleOrder, 1, Len(hooks[c]))
          /\ (pc[c] = "done" => hooks[c] = LifecycleOrder)
          /\ ("func" \in Range(hooks[c]) /\ ~raised => pc[c] \in {"post", "done"})
          /\ ("parse" \in Range(hooks[c]) => preret[c] = "false")
    /\ Cardinality({c \in Callers : pc[c] # "idle"}) <= 1

C2_Witness == \E c \in Callers : cmd[c] = "who" /\ pc[c] = "done" /\ hooks[c] = LifecycleOrder /\ Len(outbox) = 1

(* C3: the table of who has the account name, command count, protocol and
   host columns only if the 'f' switch was given and the caller holds
   "Immortals" or "Wizards"; otherwise rows are as wide as the header, no
   first cell is the account's name, and without the switch the header is
   the three columns of the minimal view. *)
C3_PrivilegedColumnsGuarded ==
    \A c \in Callers :
        WhoRan(c) =>
            LET f == InSwitches("f", raw[c]) IN
            /\ (Range(table.header) \cap PrivilegedColumns # {} => f /\ Elevated(c))
            /\ (~(f /\ Elevated(c)) =>
                   /\ Range(table.header) \cap PrivilegedColumns = {}
                   /\ \A k \in 1..Len(table.rows) :
                         /\ Len(table.rows[k]) = Len(table.header)
                         /\ table.rows[k][1] # Crop(sessions[table.src[k]].player, CropWidth))
            /\ (~f => table.header = HeaderMinimal)
            /\ \A k \in 1..Len(outbox) :
                  outbox[k].table = [header |-> table.header, rows |-> table.rows]

C3_Witness ==
    \E c \in Callers :
        /\ WhoSent(c)
        /\ InSwitches("f", raw[c])
        /\ ~Elevated(c)
        /\ table.header = HeaderModerate
        /\ Len(table.rows) >= 2

(* C4: once func of who has run, the table has as many rows as there are
   logged-in sessions. *)
C4_RowPerLoggedInSession ==
    \A c \in Callers : WhoRan(c) => Len(table.rows) = Cardinality(LoggedIn)

(* C5: once func of who has run, it has not raised, the report is sent, every
   logged-in session has its row, and the row of a session without a puppet
   shows a placeholder. *)
C5_AbsenceNeverFails ==
    \A c \in Callers :
        WhoRan(c) =>
            /\ ~raised
            /\ WhoSent(c)
            /\ Range(table.src) = LoggedIn
            /\ \A k \in 1..Len(table.rows) :
                  sessions[table.src[k]].puppet = "none" =>
                      table.rows[k][IF Len(table.header) = 8 THEN 4 ELSE 1] \in {StrNone, StrUnknown}

C8_SummaryLine ==
    \A c \in Callers :
        WhoSent(c) =>
            LET n == Cardinality({sessions[i].player : i \in Range(table.src)}) IN
            \A k \in 1..Len(outbox) :
                /\ (n = 1 => outbox[k].text = <<79, 110, 101, 32, 117, 110, 105, 113, 117, 101, 32, 97, 99, 99, 111, 117, 110, 116, 32, 108, 111, 103, 103, 101, 100, 32, 105, 110, 46>>)
                /\ (n > 1 => outbox[k].text = Digits(n) \o <<32, 117, 110, 105, 113, 117, 101, 32, 97, 99, 99, 111, 117, 110, 116, 115, 32, 108, 111, 103, 103, 101, 100, 32, 105, 110, 46>>)

C8_Witness ==
    \E c \in Callers :
        /\ WhoSent(c)
        /\ Len(table.rows) = 2
        /\ Cardinality({sessions[i].player : i \in Range(table.src)}) = 1
        /\ InSwitches("f", raw[c])

(* C9: once func of who has run, exactly one message has been sent, and it
   went to the invoking caller. *)
C9_OneMessageToCaller ==
    \A c \in Callers : WhoRan(c) => Len(outbox) = 1 /\ outbox[1].to = c

(* C10: once func of who/f has run for a caller holding "Immortals" or
   "Wizards", the table has the eight columns, a row of eight cells for every
   logged-in session, and account, character and room cells of at most 25
   characters. *)
C10_FullViewForElevated ==
    \A c \in Callers :
        WhoRan(c) /\ InSwitches("f", raw[c]) /\ Elevated(c) =>
            /\ table.header = HeaderFull
            /\ Range(table.src) = LoggedIn
            /\ \A k \in 1..Len(table.rows) :
                  /\ Len(table.rows[k]) = 8
                  /\ Len(table.rows[k][1]) <= 25
                  /\ Len(table.rows[k][4]) <= 25
                  /\ Len(table.rows[k][5]) <= 25

====
